---- MODULE Spec2Model ----
(***************************************************************************)
(* Model of rssa_analyzer: the framed-record reader (rssa_parser.py), the  *)
(* RSSA object and its masks (rssa.py), the cylindrical binner             *)
(* (plotter.py) and the command menu that drives them (menu.py).           *)
(*                                                                         *)
(* A file is a sequence of bytes.  Integers are decoded from their         *)
(* little-endian two's complement bytes and floats from their IEEE-754     *)
(* binary64 bytes.  Python exceptions are named by their class.            *)
(***************************************************************************)
EXTENDS Integers, Sequences, FiniteSets, TLC

VARIABLES
    command,    \* Menu.command
    subtext,    \* Menu.subtext
    rssa_list,  \* Menu.rssa_list: sequence of RSSA objects
    filename,   \* the file name entered in command_open
    infile,     \* the bytes of the file read_rssa has open (<<>> when none)
    pos,        \* stream position of infile, in bytes from the start
    pc,         \* position of the load inside read_rssa
    nrec,       \* number of read_fortran_record calls made by this load
    rec,        \* the last read_fortran_record call: its arguments and result
    loc,        \* local variables of read_header decoded so far
    surfaces,   \* local list `surfaces` of read_header
    exc,        \* the exception that left the running handler uncaught
    fig         \* what the last plotting call computed and how it ended

vars == <<command, subtext, rssa_list, filename, infile, pos, pc, nrec, rec,
          loc, surfaces, exc, fig>>

----------------------------------------------------------------------------
(* Bytes, integers and floats                                              *)

Min(a, b) == IF a < b THEN a ELSE b

Abs(a) == IF a < 0 THEN -a ELSE a

\* 2^n for 0 <= n <= 30
Pow2(n) ==
    << 1, 2, 4, 8, 16, 32,
      64, 128, 256, 512, 1024, 2048,
      4096, 8192, 16384, 32768, 65536, 131072,
      262144, 524288, 1048576, 2097152, 4194304, 8388608,
      16777216, 33554432, 67108864, 134217728, 268435456, 536870912,
      1073741824 >>[n + 1]

\* b[o+1..o+len], the bytes of b at offset o (0-based), as numpy slices them
Slice(b, o, len) == SubSeq(b, o + 1, o + len)

\* np.int32 from 4 little-endian bytes at offset o
DecodeInt(b, o) ==
    b[o + 1] + 256 * b[o + 2] + 65536 * b[o + 3]
      + 16777216 * (IF b[o + 4] >= 128 THEN b[o + 4] - 256 ELSE b[o + 4])

\* np.int64 from 8 little-endian bytes at offset o.  The values of the model
\* fit 32 bits: the high word is the sign extension of the low word.
DecodeLong(b, o) == DecodeInt(b, o)

\* The float values of the model: integers of magnitude below 2^31 ("num"),
\* NaN ("nan"), the infinities ("inf", v the sign) and every other binary64
\* value ("outside").
Num(n) == [k |-> "num", v |-> n]

NaN == [k |-> "nan", v |-> 0]

\* np.float64 from 8 little-endian bytes at offset o: sign bit, 11 exponent
\* bits, 52 fraction bits of which the top 28 are held in m28
DecodeFloat(b, o) ==
    LET sign == IF b[o + 8] >= 128 THEN -1 ELSE 1
        e    == (b[o + 8] % 128) * 16 + (b[o + 7] \div 16)
        m28  == (b[o + 7] % 16) * 16777216 + b[o + 6] * 65536
                  + b[o + 5] * 256 + b[o + 4]
        low  == b[o + 3] + b[o + 2] + b[o + 1]
        p    == e - 1023
    IN  IF e = 2047
        THEN (IF m28 = 0 /\ low = 0 THEN [k |-> "inf", v |-> sign] ELSE NaN)
        ELSE IF e = 0 /\ m28 = 0 /\ low = 0 THEN Num(0)
        ELSE IF low # 0 \/ p < 0 \/ p > 30 THEN [k |-> "outside", v |-> sign]
        ELSE IF p >= 28
             THEN Num(sign * ((268435456 + m28) * Pow2(p - 28)))
        ELSE IF m28 % Pow2(28 - p) # 0 THEN [k |-> "outside", v |-> sign]
        ELSE Num(sign * ((268435456 + m28) \div Pow2(28 - p)))

----------------------------------------------------------------------------
(* The files on disk                                                       *)

\* 4 little-endian bytes of a 32-bit integer
EncInt(v) ==
    LET w == IF v < 0 THEN (v + 2147483647) + 1 ELSE v
    IN  << w % 256, (w \div 256) % 256, (w \div 65536) % 256,
           (w \div 16777216) + (IF v < 0 THEN 128 ELSE 0) >>

\* 8 little-endian bytes of a 64-bit integer that fits 32 bits
EncLong(v) == EncInt(v) \o (IF v < 0 THEN <<255, 255, 255, 255>> ELSE <<0, 0, 0, 0>>)

RECURSIVE Log2(_)
Log2(n) == IF n <= 1 THEN 0 ELSE 1 + Log2(n \div 2)

\* 8 little-endian bytes of a float of the model
EncFloat(x) ==
    IF x.k = "nan" THEN <<0, 0, 0, 0, 0, 0, 248, 127>>
    ELSE IF x.v = 0 THEN <<0, 0, 0, 0, 0, 0, 0, 0>>
    ELSE LET a   == Abs(x.v)
             p   == Log2(a)
             r   == a - Pow2(p)
             m28 == IF p <= 28 THEN r * Pow2(28 - p) ELSE r \div Pow2(p - 28)
             e   == p + 1023
         IN  << 0, 0, 0, m28 % 256, (m28 \div 256) % 256, (m28 \div 65536) % 256,
                (e % 16) * 16 + (m28 \div 16777216),
                (e \div 16) + (IF x.v < 0 THEN 128 ELSE 0) >>

RECURSIVE Flatten(_)
Flatten(ss) == IF ss = <<>> THEN <<>> ELSE Head(ss) \o Flatten(Tail(ss))

\* a framed record: leading marker, payload, trailing marker + d
Frame(data, d) == EncInt(Len(data)) \o data \o EncInt(Len(data) + d)


\* the text 'd1suned' as ASCII bytes
Signature == <<100, 49, 115, 117, 110, 101, 100>>

\* the first record of a file written by D1SUNED: the code name, then a title
GoodId == Signature \o <<32, 51, 46, 49>>

\* a first record written by another code ('mcnp 6.2 ')
OtherId == <<109, 99, 110, 112, 32, 54, 46, 50, 32>>

\* a first record that holds the signature and a byte no UTF-8 text holds
BrokenId == Signature \o <<255, 32, 32>>

\* the payload of a surface record: id, info, type, num_params, then the
\* parameters, all 4-byte integers
SurfaceRecord(id, info, type, num_params, params) ==
    EncInt(id) \o EncInt(info) \o EncInt(type) \o EncInt(num_params)
      \o Flatten([i \in 1..Len(params) |-> EncInt(params[i])])

\* a header as a generating code writes it.  surfs: the surface records
\* present; exts: the number of extension records present; bad: the index of
\* the record whose trailing marker differs from its leading one (0: none);
\* cshort: the number of bytes missing at the end of the count record.
BaseHeader ==
    [id |-> GoodId, np1 |-> -1000, nrss |-> 0, nrcd |-> 11, njsw |-> 1,
     niss |-> 2, niwr |-> 0, mipts |-> 1, kjaq |-> 0,
     surfs |-> << SurfaceRecord(7, 0, 2, 1, <<5>>) >>,
     exts |-> 0, bad |-> 0, cshort |-> 0]

HeaderRecords(h) ==
    LET counts == EncLong(h.np1) \o EncLong(h.nrss) \o EncInt(h.nrcd)
                    \o EncInt(h.njsw) \o EncLong(h.niss)
    IN  << h.id, SubSeq(counts, 1, Len(counts) - h.cshort),
           EncInt(h.niwr) \o EncInt(h.mipts) \o EncInt(h.kjaq) >>
        \o h.surfs
        \o [i \in 1..h.exts |-> EncInt(i)]
        \o << EncInt(0) \o EncInt(0) >>

HeaderBytes(h) ==
    LET rs == HeaderRecords(h)
    IN  Flatten([i \in 1..Len(rs) |-> Frame(rs[i], IF i = h.bad THEN 1 ELSE 0)])

\* a track row of 11 floats: history, flag, weight, energy, time, x, y, z,
\* u, v, surface id
Row(a, b, wgt, x, y, z) ==
    << a, b, Num(wgt), Num(1), Num(0), Num(x), Num(y), Num(z), Num(0), Num(0), Num(7) >>

TrackBytes(rows) ==
    Flatten([i \in 1..Len(rows) |->
               Frame(Flatten([j \in 1..Len(rows[i]) |-> EncFloat(rows[i][j])]), 0)])

\* the bytes of a file: header, track records, the last `cut` bytes removed
FileBytes(f) ==
    LET all == HeaderBytes(f.h) \o TrackBytes(f.rows)
    IN  SubSeq(all, 1, Len(all) - f.cut)


\* the longest track table a file of the catalogue holds
MaxRows == 3

NFlag == Num(800000000)

PFlag == Num(1600000000)

\* the track tables of the catalogue; the positions lie on a cylinder of
\* radius 5 around the z axis
BaseTables ==
    << \* three photons at z = 0, 5, 10 with flag 9e8, then a neutron
       << Row(Num(1), Num(900000000), 1, 5, 0, 0),
          Row(Num(2), Num(900000000), 2, 0, 5, 5),
          Row(Num(-3), Num(900000000), 3, -5, 0, 10),
          Row(Num(4), NFlag, 1, 0, -5, 0),
          Row(Num(5), NFlag, 1, 5, 0, 5) >>,
       \* neutrons, two of them in the same place
       << Row(Num(1), NFlag, 1, 5, 0, 0),
          Row(Num(1), Num(-800000000), 2, 0, 5, 10),
          Row(Num(-2), Num(899999998), 3, 0, 5, 10),
          Row(Num(3), NFlag, 1, -5, 0, 4),
          Row(Num(4), NFlag, 1, 0, -5, 8) >>,
       \* neutrons and photons mixed
       << Row(Num(1), PFlag, 2, 0, -5, 2),
          Row(Num(2), NFlag, 1, 5, 0, 3),
          Row(Num(3), Num(-900000000), 1, 0, 5, 6),
          Row(Num(-4), Num(-1600000000), 3, 5, 0, 2),
          Row(Num(5), NFlag, 2, -5, 0, 7) >>,
       \* a flag that is not a number
       << Row(Num(1), NaN, 1, 5, 0, 0),
          Row(Num(2), NFlag, 1, 0, 5, 4),
          Row(Num(3), PFlag, 1, -5, 0, 8),
          Row(Num(4), NaN, 1, 0, -5, 2),
          Row(Num(5), NFlag, 1, 5, 0, 6) >> >>

ThreeRows == SubSeq(BaseTables[1], 1, 3)

F(h, rows, cut) == [h |-> h, rows |-> rows, cut |-> cut]

\* files whose header differs from BaseHeader in one place, most of them
\* without track records; cut removes bytes from the end of the file
HeaderCases ==
    LET B == BaseHeader
        S2 == << SurfaceRecord(7, 4, 2, 1, <<5>>), SurfaceRecord(9, 6, 1, 0, <<>>) >>
    IN  << F(B, <<>>, 0),
           F([B EXCEPT !.id = OtherId], <<>>, 0),
           F([B EXCEPT !.id = BrokenId], <<>>, 0),
           F([B EXCEPT !.nrcd = 10], <<>>, 0),
           F([B EXCEPT !.np1 = 1000], <<>>, 0),
           F([B EXCEPT !.np1 = 0], <<>>, 0),
           F([B EXCEPT !.id = OtherId, !.nrcd = 10, !.np1 = 1000], <<>>, 0),
           F([B EXCEPT !.nrcd = 10, !.np1 = 1000], <<>>, 0),
           F([B EXCEPT !.cshort = 12], <<>>, 0),
           F([B EXCEPT !.niwr = 1, !.exts = 1], <<>>, 0),
           F([B EXCEPT !.niwr = 2, !.exts = 2], <<>>, 0),
           F([B EXCEPT !.niwr = 1, !.exts = 1, !.bad = 5], <<>>, 0),
           F([B EXCEPT !.niwr = 1], <<>>, 16),
           F([B EXCEPT !.niwr = 1, !.njsw = -1, !.surfs = <<>>], <<>>, 0),
           F([B EXCEPT !.niwr = -1], <<>>, 0),
           F([B EXCEPT !.njsw = 0, !.surfs = <<>>], <<>>, 0),
           F([B EXCEPT !.njsw = -1, !.surfs = <<>>], <<>>, 0),
           F([B EXCEPT !.njsw = 2, !.surfs = S2, !.nrss = 3], ThreeRows, 0),
           F([B EXCEPT !.njsw = 2, !.surfs = S2, !.kjaq = 1], <<>>, 0),
           F([B EXCEPT !.kjaq = 1], <<>>, 0),
           F([B EXCEPT !.surfs = << SurfaceRecord(7, 0, 2, 1, <<5, 6>>) >>], <<>>, 0),
           F([B EXCEPT !.surfs = << SurfaceRecord(7, 0, 2, 2, <<>>) >>], <<>>, 0),
           F([B EXCEPT !.surfs = << SurfaceRecord(7, 0, 2, 1, <<5>>) \o <<0, 0>> >>],
             <<>>, 0),
           F([B EXCEPT !.surfs = << EncInt(7) \o EncInt(0) \o EncInt(2) >>], <<>>, 0),
           F([B EXCEPT !.bad = 1], <<>>, 0),
           F([B EXCEPT !.bad = 2], <<>>, 0),
           F([B EXCEPT !.bad = 3], <<>>, 0),
           F([B EXCEPT !.bad = 4], <<>>, 0),
           F([B EXCEPT !.bad = 5], <<>>, 0),
           F([B EXCEPT !.nrss = 5], ThreeRows, 0),
           F([B EXCEPT !.nrss = 3], ThreeRows, 1),
           F([B EXCEPT !.nrss = 3], ThreeRows, 96),
           F([B EXCEPT !.nrss = 3], ThreeRows, 100),
           F(B, <<>>, 3),
           F(B, <<>>, 16) >>

\* files with a well-formed header and the first n rows of a base table
TableCases ==
    [i \in 1..(Len(BaseTables) * MaxRows) |->
        LET t == BaseTables[((i - 1) \div MaxRows) + 1]
            n == Min(((i - 1) % MaxRows) + 1, Len(t))
        IN  F([BaseHeader EXCEPT !.nrss = n], SubSeq(t, 1, n), 0)]

DiskFiles == HeaderCases \o TableCases

\* the file system: file name (a number) -> bytes
Disk == [i \in 1..Len(DiskFiles) |-> FileBytes(DiskFiles[i])]

\* the names a user may enter; 0 names no file
FileNames == 0..Len(DiskFiles)


----------------------------------------------------------------------------
(* rssa_parser.py                                                          *)

NoExc == [type |-> "none", at |-> "none"]

Exc(type, at) == [type |-> type, at |-> at]

\* np.fromfile(file, INT, 1)[0] at position p: the integer and the position
\* after it; at less than 4 bytes from the end the array is empty and the
\* subscript raises IndexError
FromFileInt(f, p) ==
    IF p + 4 <= Len(f)
    THEN [ok |-> TRUE, v |-> DecodeInt(f, p), pos |-> p + 4]
    ELSE [ok |-> FALSE, v |-> 0, pos |-> Len(f)]

\* the number of bytes np.fromfile(file, np.byte, count) reads at position p:
\* count of them, all that remain when fewer remain or count is negative
FromFileCount(f, p, count) ==
    IF count < 0 THEN Len(f) - p ELSE Min(count, Len(f) - p)

\* a reader that never compares the two markers
MarkersDiffer_Never(count_1, count_2) == FALSE

\* whether read_fortran_record raises for the two markers it read
MarkersDiffer(count_1, count_2) == count_1 # count_2

\* read_fortran_record(file) with the stream at position p.  start, n1, has2
\* and n2 record what the call read; ret is the returned payload when
\* returned is TRUE.
read_fortran_record(f, p) ==
    LET c1 == FromFileInt(f, p)
        n  == FromFileCount(f, c1.pos, c1.v)
        c2 == FromFileInt(f, c1.pos + n)
        r0 == [called |-> TRUE, start |-> p, n1 |-> c1.v, has2 |-> FALSE, n2 |-> 0,
               exc |-> NoExc, returned |-> FALSE, ret |-> <<>>, pos |-> c1.pos]
    IN  IF ~c1.ok THEN [r0 EXCEPT !.exc = Exc("IndexError", "eof"), !.n1 = 0]
        ELSE IF ~c2.ok
             THEN [r0 EXCEPT !.exc = Exc("IndexError", "eof"), !.pos = c2.pos]
        ELSE IF MarkersDiffer(c1.v, c2.v)
             THEN [r0 EXCEPT !.exc = Exc("ValueError", "frame"), !.has2 = TRUE,
                             !.n2 = c2.v, !.pos = c2.pos]
        ELSE [r0 EXCEPT !.has2 = TRUE, !.n2 = c2.v, !.pos = c2.pos,
                        !.returned = TRUE, !.ret = Slice(f, c1.pos, n)]

NoRec ==
    [called |-> FALSE, start |-> 0, n1 |-> 0, has2 |-> FALSE, n2 |-> 0,
     exc |-> NoExc, returned |-> FALSE, ret |-> <<>>, pos |-> 0]

\* data.tobytes().decode('UTF-8') succeeds.  The first records of the
\* catalogue hold ASCII bytes and the byte 255, which no UTF-8 text holds.
Utf8Decodable(data) == \A i \in 1..Len(data) : data[i] < 128

\* 'd1suned' in format_record_id
HasSignature(data) ==
    \E i \in 0..(Len(data) - Len(Signature)) :
        Slice(data, i, Len(Signature)) = Signature

\* np.frombuffer(data, dtype, count, offset) finds count items of itemsize
\* bytes at offset; otherwise it raises ValueError
FromBufferOk(data, itemsize, count, offset) ==
    offset <= Len(data) /\ Len(data) - offset >= count * itemsize

\* np.frombuffer(data, dtype, offset=offset) can cut the rest into items
FromBufferRestOk(data, itemsize, offset) ==
    offset <= Len(data) /\ (Len(data) - offset) % itemsize = 0

\* the second record's fields
CountsOk(data) ==
    /\ FromBufferOk(data, 8, 1, 0) /\ FromBufferOk(data, 8, 1, 8)
    /\ FromBufferOk(data, 4, 1, 16) /\ FromBufferOk(data, 4, 1, 20)
    /\ FromBufferOk(data, 8, 1, 24)

DecodeCounts(data) ==
    [np1 |-> DecodeLong(data, 0), nrss |-> DecodeLong(data, 8),
     nrcd |-> DecodeInt(data, 16), njsw |-> DecodeInt(data, 20),
     niss |-> DecodeLong(data, 24)]

\* the number of values per track the reader understands
NRCD == 11

\* the third record's fields
DecodeFlags(data) ==
    [niwr |-> DecodeInt(data, 0), mipts |-> DecodeInt(data, 4),
     kjaq |-> DecodeInt(data, 8)]

\* one surface record
SurfaceOk(data, kjaq) ==
    /\ FromBufferOk(data, 4, 1, 0)
    /\ (kjaq = 1 => FromBufferOk(data, 4, 1, 4))
    /\ FromBufferOk(data, 4, 1, 8)
    /\ FromBufferOk(data, 4, 1, 12)
    /\ FromBufferRestOk(data, 4, 16)

\* surface['params']: the integers from offset 16 to the end of the record
SurfaceParams(data) ==
    [i \in 1..((Len(data) - 16) \div 4) |-> DecodeInt(data, 16 + 4 * (i - 1))]

\* surface['info']
SurfaceInfo(data, kjaq) == IF kjaq = 1 THEN DecodeInt(data, 4) ELSE -1

DecodeSurface(data, kjaq) ==
    [id |-> DecodeInt(data, 0), info |-> SurfaceInfo(data, kjaq),
     type |-> DecodeInt(data, 8), num_params |-> DecodeInt(data, 12),
     params |-> SurfaceParams(data)]

\* a reader that skips the extension records
AfterSurfaces_Skip(i, njsw, niwr) == IF i < njsw THEN "surf" ELSE "summary"

\* where read_header goes once i surfaces are read: range(njsw) has more,
\* else range(njsw, njsw + niwr) is not empty, else the summary record
AfterSurfaces(i, njsw, niwr) ==
    IF i < njsw THEN "surf" ELSE IF niwr > 0 THEN "ext" ELSE "summary"

\* the bytes of one track record
TRACK_BYTES == 96

\* the floats of one track record
TRACK_FIELDS == 11

\* a reshape that drops an incomplete last record
ReshapeOk_Floor(n) == TRUE

\* data.reshape(-1, 96) succeeds
ReshapeOk(n) == n % TRACK_BYTES = 0

\* read_tracks(file) with the stream at position p: the table, one row of 11
\* floats per 96 bytes, the 4 bytes before and after each row dropped
TrackTable(f, p) ==
    [i \in 1..((Len(f) - p) \div TRACK_BYTES) |->
        [j \in 1..TRACK_FIELDS |-> DecodeFloat(f, p + TRACK_BYTES * (i - 1) + 4 + 8 * (j - 1))]]


\* the parameters dictionary read_header returns
Parameters(l, surfs) ==
    [np1 |-> l.np1, nrss |-> l.nrss, nrcd |-> l.nrcd, njsw |-> l.njsw,
     niss |-> l.niss, niwr |-> l.niwr, mipts |-> l.mipts, kjaq |-> l.kjaq,
     surfaces |-> surfs]

----------------------------------------------------------------------------
(* menu.py: the command loop, and the load it starts                       *)

\* the most RSSA files the menu holds in the model
MaxLoaded == 1

Commands == {"run", "open", "info", "plot", "custom", "end"}

NoFig == [called |-> FALSE]

NoLocals == [n \in {} |-> 0]

Init ==
    /\ command = "run"
    /\ subtext = ""
    /\ rssa_list = <<>>
    /\ filename = 0
    /\ infile = <<>>
    /\ pos = 0
    /\ pc = "menu"
    /\ nrec = 0
    /\ rec = NoRec
    /\ loc = NoLocals
    /\ surfaces = <<>>
    /\ exc = NoExc
    /\ fig = NoFig

\* Menu.rssa_filenames
rssa_filenames == {rssa_list[i].filename : i \in 1..Len(rssa_list)}

\* the locals of a finished load are gone
ResetLoad ==
    /\ infile' = <<>> /\ pos' = 0 /\ nrec' = 0 /\ rec' = NoRec
    /\ loc' = NoLocals /\ surfaces' = <<>>

\* go_main_menu(subtext)
go_main_menu(text) ==
    /\ command' = "run"
    /\ subtext' = IF text # "" THEN text ELSE subtext

\* command_run: show the menu and the subtext, then get_command
command_run ==
    /\ pc = "menu" /\ command = "run"
    /\ \E c \in Commands \cup {"?"} :
         IF c \in Commands
         THEN command' = c /\ subtext' = ""
         ELSE command' = "run" /\ subtext' = "Invalid action..."
    /\ fig' = NoFig
    /\ ResetLoad
    /\ UNCHANGED <<rssa_list, filename, pc, exc>>

\* command_end: the loop ends
command_end ==
    /\ pc = "menu" /\ command = "end"
    /\ pc' = "exit"
    /\ UNCHANGED <<command, subtext, rssa_list, filename, infile, pos, nrec, rec,
                   loc, surfaces, exc, fig>>

\* an open that keeps the object of a failed load
FailedOpen_Partial(list, name) == Append(list, [filename |-> name])

\* the list command_open is left with when RSSA(filename) raises: the
\* exception passes the append
FailedOpen(list, name) == list

\* an exception no handler catches: the load is left, nothing is appended,
\* and the program ends
Raise(e) ==
    /\ pc' = "raised"
    /\ exc' = e
    /\ rssa_list' = FailedOpen(rssa_list, filename)

\* the load goes on at `next`
Continue(next) ==
    /\ pc' = next
    /\ exc' = exc
    /\ rssa_list' = rssa_list

\* command_open up to the first record: the name is entered; a name already
\* loaded and a file that does not exist go back to the main menu; otherwise
\* RSSA(filename) starts read_rssa on the open file
command_open ==
    /\ pc = "menu" /\ command = "open"
    /\ \E name \in FileNames :
         /\ name \in rssa_filenames \/ Len(rssa_list) < MaxLoaded
         /\ filename' = name
         /\ IF name \in rssa_filenames
            THEN /\ go_main_menu("RSSA filename already loaded...")
                 /\ UNCHANGED <<infile, pc>>
            ELSE IF name \notin DOMAIN Disk
            THEN /\ go_main_menu("File not found for this path or filename...")
                 /\ UNCHANGED <<infile, pc>>
            ELSE /\ infile' = Disk[name]
                 /\ pc' = "rec1"
                 /\ UNCHANGED <<command, subtext>>
    /\ UNCHANGED <<rssa_list, pos, nrec, rec, loc, surfaces, exc, fig>>

\* read_header, first record: the identification text and its signature
ReadIdentification ==
    /\ pc = "rec1"
    /\ LET r == read_fortran_record(infile, pos)
       IN  /\ rec' = r /\ pos' = r.pos /\ nrec' = nrec + 1
           /\ IF r.exc # NoExc THEN Raise(r.exc)
              ELSE IF ~Utf8Decodable(r.ret) THEN Raise(Exc("ValueError", "utf8"))
              ELSE IF ~HasSignature(r.ret)
                   THEN Raise(Exc("NotImplementedError", "signature"))
              ELSE Continue("rec2")
    /\ UNCHANGED <<command, subtext, filename, infile, loc, surfaces, fig>>

\* the two checks in the other order
CountsCheck_Swapped(c) ==
    IF ~(c.np1 < 0) THEN "np1" ELSE IF c.nrcd # NRCD THEN "nrcd" ELSE "ok"

\* the checks read_header makes on the counts, in its order: "nrcd" and "np1"
\* name the check that fails
CountsCheck(c) ==
    IF c.nrcd # NRCD THEN "nrcd" ELSE IF ~(c.np1 < 0) THEN "np1" ELSE "ok"

\* read_header, second record: the counts, then the checks of nrcd and np1
ReadCounts ==
    /\ pc = "rec2"
    /\ LET r == read_fortran_record(infile, pos)
           c == DecodeCounts(r.ret)
       IN  /\ rec' = r /\ pos' = r.pos /\ nrec' = nrec + 1
           /\ IF r.exc # NoExc THEN Raise(r.exc) /\ loc' = loc
              ELSE IF ~CountsOk(r.ret)
                   THEN Raise(Exc("ValueError", "buffer")) /\ loc' = loc
              ELSE /\ loc' = c
                   /\ IF CountsCheck(c) # "ok"
                      THEN Raise(Exc("NotImplementedError", CountsCheck(c)))
                      ELSE Continue("rec3")
    /\ UNCHANGED <<command, subtext, filename, infile, surfaces, fig>>

\* read_header, third record: niwr, mipts, kjaq
ReadFlags ==
    /\ pc = "rec3"
    /\ LET r == read_fortran_record(infile, pos)
           g == DecodeFlags(r.ret)
       IN  /\ rec' = r /\ pos' = r.pos /\ nrec' = nrec + 1
           /\ IF r.exc # NoExc THEN Raise(r.exc) /\ loc' = loc
              ELSE IF ~FromBufferOk(r.ret, 4, 3, 0)
                   THEN Raise(Exc("ValueError", "buffer")) /\ loc' = loc
              ELSE /\ loc' = loc @@ g
                   /\ Continue(AfterSurfaces(0, loc.njsw, g.niwr))
    /\ UNCHANGED <<command, subtext, filename, infile, surfaces, fig>>

\* read_header, one turn of the loop over range(njsw): a surface record
ReadSurface ==
    /\ pc = "surf"
    /\ LET r == read_fortran_record(infile, pos)
       IN  /\ rec' = r /\ pos' = r.pos /\ nrec' = nrec + 1
           /\ IF r.exc # NoExc THEN Raise(r.exc) /\ surfaces' = surfaces
              ELSE IF ~SurfaceOk(r.ret, loc.kjaq)
                   THEN Raise(Exc("ValueError", "buffer")) /\ surfaces' = surfaces
              ELSE /\ surfaces' = Append(surfaces, DecodeSurface(r.ret, loc.kjaq))
                   /\ Continue(AfterSurfaces(Len(surfaces) + 1, loc.njsw, loc.niwr))
    /\ UNCHANGED <<command, subtext, filename, infile, loc, fig>>

\* read_header, the loop over range(njsw, njsw + niwr): its first turn reads
\* a record and raises
ReadExtension ==
    /\ pc = "ext"
    /\ LET r == read_fortran_record(infile, pos)
       IN  /\ rec' = r /\ pos' = r.pos /\ nrec' = nrec + 1
           /\ IF r.exc # NoExc THEN Raise(r.exc)
              ELSE Raise(Exc("NotImplementedError", "extension"))
    /\ UNCHANGED <<command, subtext, filename, infile, loc, surfaces, fig>>

\* read_header, the summary record; read_header returns the parameters
ReadSummary ==
    /\ pc = "summary"
    /\ LET r == read_fortran_record(infile, pos)
       IN  /\ rec' = r /\ pos' = r.pos /\ nrec' = nrec + 1
           /\ IF r.exc # NoExc THEN Raise(r.exc)
              ELSE Continue("tracks")
    /\ UNCHANGED <<command, subtext, filename, infile, loc, surfaces, fig>>

\* RSSA(filename), the object the constructor builds
RSSA(name, parameters, tracks) ==
    [filename |-> name, parameters |-> parameters, tracks |-> tracks]

\* self.rssa_list.append(rssa): reached only when RSSA(filename) returned
Loaded(list, rssa) == Append(list, rssa)

\* read_tracks on the rest of the file; then read_rssa returns the pair, the
\* RSSA constructor finishes, command_open appends the object and goes back
\* to the main menu
ReadTracks ==
    /\ pc = "tracks"
    /\ pos' = Len(infile)
    /\ IF ~ReshapeOk(Len(infile) - pos)
       THEN /\ Raise(Exc("ValueError", "reshape"))
            /\ UNCHANGED <<command, subtext>>
       ELSE /\ rssa_list' = Loaded(rssa_list,
                                   RSSA(filename, Parameters(loc, surfaces),
                                        TrackTable(infile, pos)))
            /\ go_main_menu("RSSA file loaded!")
            /\ pc' = "menu" /\ exc' = exc
    /\ UNCHANGED <<filename, infile, nrec, rec, loc, surfaces, fig>>

----------------------------------------------------------------------------
(* rssa.py: the views of a loaded table.  Rows and fields are numbered     *)
(* from 1 here and from 0 in the code.                                     *)

Flag(t, i) == t[i][2]

Wgt(t, i) == t[i][3].v

X(t, i) == t[i][6].v

Y(t, i) == t[i][7].v

Z(t, i) == t[i][8].v

\* 9e8, the flag magnitude from which a track is a photon
PHOTON_FLAG == 900000000

\* np.abs(b) < c for a float of the model: false for NaN
AbsBelow(b, c) == b.k = "num" /\ Abs(b.v) < c

\* np.abs(b) >= c for a float of the model: false for NaN
AbsAtLeast(b, c) == (b.k = "num" /\ Abs(b.v) >= c) \/ b.k = "inf"

\* RSSA.mask_neutron_tracks: the rows np.where finds
mask_neutron_tracks(t) == {i \in 1..Len(t) : AbsBelow(Flag(t, i), PHOTON_FLAG)}

\* RSSA.mask_photon_tracks
mask_photon_tracks(t) == {i \in 1..Len(t) : AbsAtLeast(Flag(t, i), PHOTON_FLAG)}

\* RSSA.get_particle_mask(particle)
get_particle_mask(t, particle) ==
    IF particle = "n" THEN [exc |-> NoExc, rows |-> mask_neutron_tracks(t)]
    ELSE IF particle = "p" THEN [exc |-> NoExc, rows |-> mask_photon_tracks(t)]
    ELSE [exc |-> Exc("ValueError", "particle"), rows |-> {}]

\* x^2 + y^2 of a row
Radius2(t, i) == X(t, i) * X(t, i) + Y(t, i) * Y(t, i)

\* RSSA.type.  The positions of the model are small integers, for which the
\* standard deviation of the radii is below 1e-4 exactly when all radii are
\* equal; of an empty table it is NaN.
SurfaceType(rssa) ==
    IF Len(rssa.parameters.surfaces) > 1 THEN "multiple"
    ELSE IF /\ Len(rssa.tracks) > 0
            /\ \A i, j \in 1..Len(rssa.tracks) :
                   Radius2(rssa.tracks, i) = Radius2(rssa.tracks, j)
         THEN "cyl"
    ELSE "plane"

\* np.linalg.norm([x[0], y[0]]), for a first row at an integer distance
Radius(t) ==
    CHOOSE r \in 0..(Abs(X(t, 1)) + Abs(Y(t, 1))) : r * r = Radius2(t, 1)

\* RSSA.get_info, the facts its text states
get_info(rssa) ==
    [filename |-> rssa.filename,
     surfaces |-> [k \in 1..Len(rssa.parameters.surfaces) |->
                      rssa.parameters.surfaces[k].id],
     type |-> SurfaceType(rssa),
     radius |-> IF SurfaceType(rssa) = "cyl" THEN Radius(rssa.tracks) ELSE 0,
     total |-> rssa.parameters.nrss,
     n_tracks |-> Cardinality(mask_neutron_tracks(rssa.tracks)),
     p_tracks |-> Cardinality(mask_photon_tracks(rssa.tracks)),
     histories |-> Abs(rssa.parameters.np1),
     niss |-> rssa.parameters.niss]

----------------------------------------------------------------------------
(* plotter.py.  Angles are counted in eighths of a turn (pi/4), which the  *)
(* positions of the model have; lengths along the perimeter follow.        *)

\* np.angle(x + 1j * y) in units of pi/4, for a point on an axis or a
\* diagonal
Angle(x, y) ==
    CASE y = 0 /\ x >= 0 -> 0
      [] y = 0 /\ x < 0 -> 4
      [] x = 0 /\ y > 0 -> 2
      [] x = 0 /\ y < 0 -> -2
      [] x = y /\ x > 0 -> 1
      [] x = y /\ x < 0 -> -3
      [] x = -y /\ x > 0 -> -1
      [] x = -y /\ x < 0 -> 3

Theta(t, i) == Angle(X(t, i), Y(t, i))

SetMin(S) == CHOOSE m \in S : \A e \in S : m <= e

SetMax(S) == CHOOSE m \in S : \A e \in S : m >= e

\* radius * theta > c and radius * theta < c for an integer c, theta in
\* units of pi/4 and pi between 355/113 - 1/10^6 and 355/113
PerimeterAbove(t, i, c) ==
    IF Theta(t, i) = 0 THEN 0 > c ELSE Radius(t) * Theta(t, i) * 355 > 4 * 113 * c

PerimeterBelow(t, i, c) ==
    IF Theta(t, i) = 0 THEN 0 < c ELSE Radius(t) * Theta(t, i) * 355 < 4 * 113 * c

\* a mask argument: none (None), or an index array with its rows; obj marks
\* the object dtype np.intersect1d gives an array it joined with None
NoMask == [none |-> TRUE, obj |-> FALSE, rows |-> {}]

IntMask(rows) == [none |-> FALSE, obj |-> FALSE, rows |-> rows]

ObjMask == [none |-> FALSE, obj |-> TRUE, rows |-> {}]

\* plot_current_cyl, the mask of the z range: z_range[0] < z < z_range[1]
ZRangeMask(t, z_range) ==
    IF z_range = <<>> THEN NoMask
    ELSE IntMask({i \in 1..Len(t) : Z(t, i) > z_range[1] /\ Z(t, i) < z_range[2]})

\* plot_current_cyl, the mask after the x range.  np.intersect1d(mask, mask1)
\* with mask None sorts None among the rows of mask1: TypeError when mask1
\* has a row, and an empty array of dtype object when it has none.
XRangeMask(t, mask, x_range) ==
    IF x_range = <<>> THEN [exc |-> NoExc, mask |-> mask]
    ELSE IF Len(t) = 0 THEN [exc |-> Exc("IndexError", "x[0]"), mask |-> mask]
    ELSE LET mask1 == {i \in 1..Len(t) : PerimeterAbove(t, i, x_range[1])}
             mask2 == {i \in 1..Len(t) : PerimeterBelow(t, i, x_range[2])}
         IN  IF mask.none
             THEN IF mask1 # {}
                  THEN [exc |-> Exc("TypeError", "intersect1d"), mask |-> mask]
                  ELSE [exc |-> NoExc, mask |-> ObjMask]
             ELSE [exc |-> NoExc, mask |-> IntMask((mask.rows \cap mask1) \cap mask2)]

\* np.linspace(lo, hi, num): num values from lo to hi, the k-th (from 0)
\* being lo + k * (hi - lo) / (num - 1)
Linspace(lo, hi, num) == [lo |-> lo, hi |-> hi, num |-> num]

\* what astype(int) makes of NaN: the lowest integer on some builds, 0 on
\* others; the lowest integer stands below every index of a grid
NanCasts == {"lowest", "zero"}

CastNan(cast) == IF cast = "lowest" THEN -2147483647 - 1 ELSE 0

\* closest(axis, values)[v]: (v - axis[0]) / (axis[1] - axis[0]) cut to an
\* integer, the index len(axis) - 1 moved to len(axis) - 2.  The values lie
\* between axis[0] and axis[-1].  With axis[1] = axis[0] the quotient is 0/0.
ClosestRaw(axis, v, cast) ==
    IF axis.hi = axis.lo THEN CastNan(cast)
    ELSE ((v - axis.lo) * (axis.num - 1)) \div (axis.hi - axis.lo)

Clamp(idx, len) == IF idx = len - 1 THEN len - 2 ELSE idx

closest(axis, v, cast) == Clamp(ClosestRaw(axis, v, cast), axis.num)

\* an index np.add.at accepts along an axis of n cells
IndexOk(idx, n) == -n <= idx /\ idx < n

\* the cell an accepted index names: negative ones count from the end
Cell(idx, n) == IF idx < 0 THEN idx + n ELSE idx

RECURSIVE SumOver(_, _)
SumOver(S, f) ==
    IF S = {} THEN 0
    ELSE LET e == CHOOSE e \in S : TRUE IN f[e] + SumOver(S \ {e}, f)

\* np.add.at(grid, (z_idx, theta_idx), w) at one cell: the sum of w over the
\* rows whose indices name the cell, each row counted
AddAt(rows, w) == SumOver(rows, w)

\* a count left at 0
ErrCount_Raw(n) == n

\* error_grid[np.where(error_grid == 0)] = 1
ErrCount(n) == IF n = 0 THEN 1 ELSE n

\* 1 / np.sqrt(n), kept as the n under the root; 1 / sqrt(0) is inf
InvSqrt(n) == IF n > 0 THEN [k |-> "inv_sqrt", v |-> n] ELSE [k |-> "inf", v |-> 0]

\* int(np.log10(x)) raises OverflowError for x = 0 (log10 is -inf) and
\* ValueError for x < 0 (log10 is NaN)
IntLog10Exc(x) ==
    IF x > 0 THEN NoExc
    ELSE IF x = 0 THEN Exc("OverflowError", "int(inf)")
    ELSE Exc("ValueError", "int(nan)")

\* what a plotting call has done, stage by stage
Fig0(idx, particle, z_int, theta_int, value_range, z_range, x_range) ==
    [called |-> TRUE, idx |-> idx, particle |-> particle, z_int |-> z_int,
     theta_int |-> theta_int, value_range |-> value_range, z_range |-> z_range,
     x_range |-> x_range, exc |-> NoExc, stages |-> <<>>, grid |-> FALSE]

Failed(f, e) == [f EXCEPT !.exc = e]

\* calculate_grid_axes_cyl(z_int, theta_int, mask): an index array of dtype
\* object is refused by z[mask]; min() of no rows raises ValueError;
\* np.linspace raises ValueError for a negative number of samples
AxesExc(sel, z_int, theta_int) ==
    IF sel.obj THEN Exc("IndexError", "index dtype")
    ELSE IF sel.rows = {} THEN Exc("ValueError", "empty min")
    ELSE IF z_int + 1 < 0 \/ theta_int + 1 < 0 THEN Exc("ValueError", "linspace")
    ELSE NoExc

\* np.zeros((z_int, theta_int))
ZerosOk(z_int, theta_int) == z_int >= 0 /\ theta_int >= 0

\* axis[1] exists
ClosestOk(axis) == axis.num >= 2

\* generate_figures_current_cyl(particle, z_int, theta_int, source_intensity,
\* value_range, mask) on the RSSA r.  The grid of values is kept as fractions
\* values_num[c] / values_den, the area of a cell as area_num / area_den.
generate_figures_current_cyl(f0, r, particle, z_int, theta_int, si, value_range, mask, cast) ==
    LET t   == r.tracks
        pm  == get_particle_mask(t, particle)
        sel == IF mask.none THEN IntMask(pm.rows)
               ELSE [none |-> FALSE, obj |-> mask.obj, rows |-> pm.rows \cap mask.rows]
        S   == sel.rows
        f1  == [f0 EXCEPT !.stages = <<"mask">>] @@ [sel |-> S]
        z_axis     == Linspace(SetMin({Z(t, i) : i \in S}), SetMax({Z(t, i) : i \in S}),
                               z_int + 1)
        theta_axis == Linspace(SetMin({Theta(t, i) : i \in S}),
                               SetMax({Theta(t, i) : i \in S}), theta_int + 1)
        f2  == [f1 EXCEPT !.stages = @ \o <<"axes">>]
                 @@ [z_axis |-> z_axis, theta_axis |-> theta_axis]
        f3  == [f2 EXCEPT !.stages = @ \o <<"zeros">>]
        z_idx     == [i \in S |-> closest(z_axis, Z(t, i), cast)]
        f4  == [f3 EXCEPT !.stages = @ \o <<"z_idx">>] @@ [z_idx |-> z_idx]
        theta_idx == [i \in S |-> closest(theta_axis, Theta(t, i), cast)]
        f5  == [f4 EXCEPT !.stages = @ \o <<"theta_idx">>] @@ [theta_idx |-> theta_idx]
        cells == (0..(z_int - 1)) \X (0..(theta_int - 1))
        hits(c) == {i \in S : Cell(z_idx[i], z_int) = c[1]
                                /\ Cell(theta_idx[i], theta_int) = c[2]}
        acc == [c \in cells |-> AddAt(hits(c), [i \in S |-> Wgt(t, i)])]
        cnt == [c \in cells |-> Cardinality(hits(c))]
        area_num == Abs(Radius(t) * (theta_axis.hi - theta_axis.lo)
                          * (z_axis.hi - z_axis.lo))
        area_den == theta_int * z_int
        f6  == [f5 EXCEPT !.stages = @ \o <<"accumulate", "normalize", "errors">>,
                          !.grid = TRUE]
                 @@ [acc |-> acc, cnt |-> cnt,
                     area_num |-> area_num, area_den |-> area_den,
                     nps |-> Abs(r.parameters.np1), source_intensity |-> si,
                     values_num |-> [c \in cells |-> acc[c] * area_den * si],
                     values_den |-> area_num * Abs(r.parameters.np1),
                     error_grid |-> [c \in cells |-> InvSqrt(ErrCount(cnt[c]))]]
    IN  IF pm.exc # NoExc THEN Failed(f0, pm.exc)
        ELSE IF AxesExc(sel, z_int, theta_int) # NoExc
             THEN Failed(f1, AxesExc(sel, z_int, theta_int))
        ELSE IF ~ZerosOk(z_int, theta_int)
             THEN Failed(f2, Exc("ValueError", "negative dimensions"))
        ELSE IF ~ClosestOk(z_axis) THEN Failed(f3, Exc("IndexError", "axis[1]"))
        ELSE IF ~ClosestOk(theta_axis) THEN Failed(f4, Exc("IndexError", "axis[1]"))
        ELSE IF \E i \in S : ~IndexOk(z_idx[i], z_int) \/ ~IndexOk(theta_idx[i], theta_int)
             THEN Failed(f5, Exc("IndexError", "add.at"))
        \* the colour scale from value_range, the upper end first
        ELSE IF value_range # <<>>
             THEN IF IntLog10Exc(value_range[2]) # NoExc
                  THEN Failed(f6, IntLog10Exc(value_range[2]))
                  ELSE IF IntLog10Exc(value_range[1]) # NoExc
                  THEN Failed(f6, IntLog10Exc(value_range[1]))
                  ELSE [f6 EXCEPT !.stages = @ \o <<"figures">>]
        \* the colour scale: int(log10(grid_values.max())); with a cell area of
        \* 0 the grid holds inf where weight fell and NaN elsewhere
        ELSE IF area_num = 0
             THEN IF \E c \in cells : acc[c] = 0
                  THEN Failed(f6, Exc("ValueError", "int(nan)"))
                  ELSE Failed(f6, Exc("OverflowError", "int(inf)"))
        ELSE IF \A c \in cells : acc[c] <= 0
             THEN Failed(f6, IF \E c \in cells : acc[c] < 0
                             THEN Exc("ValueError", "int(nan)")
                             ELSE Exc("OverflowError", "int(inf)"))
        ELSE [f6 EXCEPT !.stages = @ \o <<"figures">>]

\* plot_current_cyl(particle, z_int, theta_int, source_intensity,
\* value_range, x_range, z_range, save_as)
plot_current_cyl(idx, r, particle, z_int, theta_int, si, value_range, x_range, z_range, cast) ==
    LET f0 == Fig0(idx, particle, z_int, theta_int, value_range, z_range, x_range)
        mz == ZRangeMask(r.tracks, z_range)
        mx == XRangeMask(r.tracks, mz, x_range)
    IN  IF mx.exc # NoExc THEN Failed(f0, mx.exc)
        ELSE generate_figures_current_cyl(f0, r, particle, z_int, theta_int, si,
                                          value_range, mx.mask, cast)

----------------------------------------------------------------------------
(* menu.py: the commands on loaded files                                   *)

MaxBins == 2

\* what is typed for the particle, and for a number of intervals when it is
\* a number
Particles == {"n", "p", "x"}

BinCounts == (-2)..MaxBins

\* the pairs of numbers of z and theta intervals typed: equal, or one of
\* them 1
BinPairs == {b \in BinCounts \X BinCounts : b[1] = b[2] \/ b[1] = 1 \/ b[2] = 1}

SourceIntensity == 2

\* what is typed for a range: nothing (None) or two numbers
ZRanges == {<<>>, <<-1, 11>>, <<2, 7>>, <<20, 30>>}

XRanges == {<<>>, <<-20, 20>>, <<1, 20>>, <<-20, -10>>, <<30, 40>>}

\* what is typed for the range of values: nothing, 1e2 to 1e8, 0 to 1e2
ValueRanges == {<<>>, <<100, 100000000>>, <<0, 100>>}

\* the three ranges typed together: a range of values, or ranges of x and z
RangeInputs ==
    {i \in ValueRanges \X XRanges \X ZRanges : i[1] = <<>> \/ (i[2] = <<>> /\ i[3] = <<>>)}

\* the rest of the state of a command on loaded files
MenuOnly == UNCHANGED <<filename, infile, pos, nrec, rec, loc, surfaces>>

\* views that take the magnitude of the flags in the table itself
Viewed_AbsInPlace(list, idx) ==
    [list EXCEPT ![idx].tracks =
        [i \in DOMAIN @ |->
            [@[i] EXCEPT ![2] = IF @.k = "num" THEN Num(Abs(@.v)) ELSE @]]]

\* the loaded files after the views and the plots of file idx: the accessors
\* return slices, np.abs, np.where, np.sqrt and the indexing by a mask make
\* new arrays, the plotter writes to its own grids, and nothing is assigned
\* to tracks or parameters
Viewed(list, idx) == list

\* command_info
command_info ==
    /\ pc = "menu" /\ command = "info"
    /\ IF Len(rssa_list) = 0
       THEN go_main_menu("No RSSA files loaded...") /\ rssa_list' = rssa_list
       ELSE \E idx \in 1..Len(rssa_list) :
              /\ command' = "run" /\ subtext' = get_info(rssa_list[idx])
              /\ rssa_list' = Viewed(rssa_list, idx)
    /\ MenuOnly
    /\ UNCHANGED <<pc, exc, fig>>

\* the try statement around plot_current_cyl and the go_main_menu() after
\* it: ValueError is caught and named in the subtext, any other exception
\* leaves the loop
Plotted(f) ==
    /\ fig' = f
    /\ IF f.exc = NoExc
       THEN go_main_menu("") /\ pc' = pc /\ exc' = exc
       ELSE IF f.exc.type = "ValueError"
       THEN go_main_menu("Some parameter introduced was incorrect...")
            /\ pc' = pc /\ exc' = exc
       ELSE pc' = "raised" /\ exc' = f.exc /\ UNCHANGED <<command, subtext>>

\* int(z_int), int(theta_int) or float(source_intensity) of a text that is
\* no number: ValueError before plot_current_cyl is called
NotANumber ==
    /\ fig' = NoFig
    /\ go_main_menu("Some parameter introduced was incorrect...")
    /\ pc' = pc /\ exc' = exc

NotCylindrical ==
    /\ go_main_menu("The RSSA contains a non cylindrical surface, not implemented yet...")
    /\ UNCHANGED <<pc, exc, fig>>

\* command_plot
command_plot ==
    /\ pc = "menu" /\ command = "plot"
    /\ IF Len(rssa_list) = 0
       THEN go_main_menu("No RSSA files loaded...")
            /\ UNCHANGED <<rssa_list, pc, exc, fig>>
       ELSE \E idx \in 1..Len(rssa_list) :
              /\ rssa_list' = Viewed(rssa_list, idx)
              /\ IF SurfaceType(rssa_list[idx]) # "cyl" THEN NotCylindrical
                 ELSE \/ NotANumber
                      \/ \E particle \in Particles, b \in BinPairs,
                            cast \in NanCasts :
                           Plotted(plot_current_cyl(idx, rssa_list[idx], particle,
                                                    b[1], b[2], SourceIntensity,
                                                    <<>>, <<>>, <<>>, cast))
    /\ MenuOnly

\* command_custom_plot: the ranges are entered too
command_custom_plot ==
    /\ pc = "menu" /\ command = "custom"
    /\ IF Len(rssa_list) = 0
       THEN go_main_menu("No RSSA files loaded...")
            /\ UNCHANGED <<rssa_list, pc, exc, fig>>
       ELSE \E idx \in 1..Len(rssa_list) :
              /\ rssa_list' = Viewed(rssa_list, idx)
              /\ IF SurfaceType(rssa_list[idx]) # "cyl" THEN NotCylindrical
                 ELSE \/ NotANumber
                      \/ \E particle \in {"n", "p"}, ints \in {1, MaxBins},
                            i \in RangeInputs, cast \in NanCasts :
                           Plotted(plot_current_cyl(idx, rssa_list[idx], particle,
                                                    ints, ints, SourceIntensity,
                                                    i[1], i[2], i[3], cast))
    /\ MenuOnly

Next ==
    \/ command_run
    \/ command_open
    \/ ReadIdentification
    \/ ReadCounts
    \/ ReadFlags
    \/ ReadSurface
    \/ ReadExtension
    \/ ReadSummary
    \/ ReadTracks
    \/ command_info
    \/ command_plot
    \/ command_custom_plot
    \/ command_end

Spec == Init /\ [][Next]_vars

----------------------------------------------------------------------------
(* np.float64 arithmetic, for closest on axes whose step is no binary      *)
(* fraction.  A float that is not negative is m * 2^e with 2^52 <= m <     *)
(* 2^53, or m = 0; m is kept in two parts, m = h * 2^27 + l, as the whole  *)
(* does not fit an integer of the checker.  Every operation computes the   *)
(* exact result with three more bits and the rest jammed into the last     *)
(* bit, and rounds to the nearest float, ties to the even one.             *)

B27 == 134217728

Big(h, l) == [h |-> h, l |-> l]

BigZero == Big(0, 0)

BigOne == Big(0, 1)

\* 2^n for n >= 27
BigPow2(n) == Big(Pow2(n - 27), 0)

BigAdd(a, b) == Big(a.h + b.h + (a.l + b.l) \div B27, (a.l + b.l) % B27)

\* a - b for a >= b
BigSub(a, b) ==
    IF a.l >= b.l THEN Big(a.h - b.h, a.l - b.l)
    ELSE Big(a.h - b.h - 1, a.l - b.l + B27)

BigLess(a, b) == a.h < b.h \/ (a.h = b.h /\ a.l < b.l)

BigOdd(a) == a.l % 2 = 1

BigDouble(a) == Big(2 * a.h + (2 * a.l) \div B27, (2 * a.l) % B27)

\* a * k for 0 <= k < 16
BigTimes(a, k) == Big(a.h * k + (a.l * k) \div B27, (a.l * k) % B27)

\* the number of bits of n: 0 for 0, k for 2^(k-1) <= n < 2^k
BitLen(n) == CHOOSE k \in 0..30 : (k = 0 \/ n >= Pow2(k - 1)) /\ n < Pow2(k)

BigLen(a) == IF a.h > 0 THEN 27 + BitLen(a.h) ELSE BitLen(a.l)

\* a * 2^d, for a result below 2^58
RECURSIVE BigShiftLeft(_, _)
BigShiftLeft(a, d) ==
    IF a = BigZero THEN a
    ELSE IF d >= 27 THEN BigShiftLeft(Big(a.h * B27 + a.l, 0), d - 27)
    ELSE Big(a.h * Pow2(d) + a.l \div Pow2(27 - d), (a.l % Pow2(27 - d)) * Pow2(d))

\* a \div 2^d
RECURSIVE BigShiftRight(_, _)
BigShiftRight(a, d) ==
    IF a = BigZero THEN a
    ELSE IF d >= 27 THEN BigShiftRight(Big(0, a.h), d - 27)
    ELSE Big(a.h \div Pow2(d), a.l \div Pow2(d) + (a.h % Pow2(d)) * Pow2(27 - d))

\* a shifted right by d bits, the bits that fall off kept in the last bit
ShiftRightJam(a, d) ==
    LET s == BigShiftRight(a, d)
    IN  IF BigShiftLeft(s, d) # a /\ ~BigOdd(s) THEN BigAdd(s, BigOne) ELSE s

Float(m, e) == [m |-> m, e |-> e]

FZero == Float(BigZero, 0)

\* M * 2^e rounded to a float, M > 0 with its last bit jammed: M is brought
\* between 2^55 and 2^56, its last three bits decide the rounding
RoundBits(M, e) ==
    LET n   == BigLen(M)
        N   == IF n <= 56 THEN BigShiftLeft(M, 56 - n) ELSE ShiftRightJam(M, n - 56)
        low == N.l % 8
        m   == BigShiftRight(N, 3)
        up  == low > 4 \/ (low = 4 /\ BigOdd(m))
        r   == IF up THEN BigAdd(m, BigOne) ELSE m
    IN  IF r = BigPow2(53) THEN Float(BigPow2(52), e + n - 52)
        ELSE Float(r, e + n - 53)

\* the same of an expression, which is computed once
RoundPack(M, e) == CHOOSE f \in {RoundBits(V, e) : V \in {M}} : TRUE

\* float(n) for an integer 0 <= n < 2^27
FromInt(n) == IF n = 0 THEN FZero ELSE RoundPack(Big(0, n), 0)

FLess(x, y) ==
    IF y.m = BigZero THEN FALSE
    ELSE IF x.m = BigZero THEN TRUE
    ELSE x.e < y.e \/ (x.e = y.e /\ BigLess(x.m, y.m))

\* x + y
FAdd(x, y) ==
    IF x.m = BigZero THEN y
    ELSE IF y.m = BigZero THEN x
    ELSE LET a == IF FLess(x, y) THEN y ELSE x
             b == IF FLess(x, y) THEN x ELSE y
         IN  RoundPack(BigAdd(BigTimes(a.m, 8),
                              ShiftRightJam(BigTimes(b.m, 8), a.e - b.e)),
                       a.e - 3)

\* x - y for x >= y
FSub(x, y) ==
    IF y.m = BigZero THEN x
    ELSE IF x = y THEN FZero
    ELSE RoundPack(BigSub(BigTimes(x.m, 8),
                          ShiftRightJam(BigTimes(y.m, 8), x.e - y.e)),
                   x.e - 3)

\* k * x for an integer 0 <= k < 16
FTimesInt(k, x) ==
    IF k = 0 \/ x.m = BigZero THEN FZero ELSE RoundPack(BigTimes(x.m, k), x.e)

\* Division is long division of the two m, a bit of the quotient at a time:
\* s.q holds the bits so far, s.r < d the remainder they leave.
\* the bit before the point, for a < 2 * d
DivStart(a, d) ==
    IF BigLess(a, d) THEN [q |-> BigZero, r |-> a] ELSE [q |-> BigOne, r |-> BigSub(a, d)]

\* one more bit
DivStep(s, d) ==
    LET r2 == BigDouble(s.r)
    IN  IF BigLess(r2, d) THEN [q |-> BigDouble(s.q), r |-> r2]
        ELSE [q |-> BigAdd(BigDouble(s.q), BigOne), r |-> BigSub(r2, d)]

\* the quotient with its last bit jammed when a remainder is left
DivJam(s) == IF s.r = BigZero \/ BigOdd(s.q) THEN s.q ELSE BigAdd(s.q, BigOne)

\* the bits of the quotient after the point
DivBits == 56

\* x / y for y > 0, begun: n bits are to come, the one before the point first
Divide(x, y) ==
    [x |-> x, y |-> y, s |-> [q |-> BigZero, r |-> BigZero],
     n |-> IF x.m = BigZero THEN 0 ELSE DivBits + 1]

\* x / y with its next bit
DivideBit(dv) ==
    [dv EXCEPT !.s = IF dv.n = DivBits + 1 THEN DivStart(dv.x.m, dv.y.m)
                     ELSE DivStep(dv.s, dv.y.m),
               !.n = dv.n - 1]

\* x / y, all the bits found
Quotient(dv) ==
    IF dv.x.m = BigZero THEN FZero
    ELSE RoundPack(DivJam(dv.s), dv.x.e - dv.y.e - DivBits)

\* int(x): the whole part of x, for x < 2^27
FTrunc(x) ==
    CASE x.m = BigZero -> 0
      [] x.m # BigZero /\ x.e < 0 -> BigShiftRight(x.m, -x.e).l

\* closest(axis, values)[v] for axis[0] <= v: l0 and lm of the axis, and the
\* index the quotient is cast to
closest64_lm(axis) == [l0 |-> axis[0], lm |-> FSub(axis[1], axis[0])]

closest64(idx, len) == Clamp(FTrunc(idx), len)

\* the axes and values closest is applied to: z_min in 0..MaxLow, z_max
\* above it by 1..MaxSpan, 1..MaxAxisBins intervals, and a whole z on the axis
MaxLow == 2

MaxSpan == 2

MaxAxisBins == 6

ClosestInputs ==
    {i \in (0..MaxLow) \X (1..MaxSpan) \X (1..MaxAxisBins) \X (0..MaxSpan) : i[4] <= i[2]}

\* a call of closest on its own: z_min, z_max and a z between them are given
InitClosest ==
    /\ command = "run"
    /\ subtext = ""
    /\ rssa_list = <<>>
    /\ filename = 0
    /\ infile = <<>>
    /\ pos = 0
    /\ pc = "extremes"
    /\ nrec = 0
    /\ rec = NoRec
    /\ loc = NoLocals
    /\ surfaces = <<>>
    /\ exc = NoExc
    /\ \E i \in ClosestInputs :
          fig = [called |-> FALSE, z_min |-> i[1], z_max |-> i[1] + i[2],
                 z_int |-> i[3], z |-> i[1] + i[4]]

\* calculate_grid_axes_cyl: z_min = z[mask].min(), z_max = z[mask].max(), of
\* the z of the rows, which are floats
ExtremesStep ==
    /\ pc = "extremes"
    /\ pc' = "delta"
    /\ fig' = fig @@ [lo |-> FromInt(fig.z_min), hi |-> FromInt(fig.z_max),
                      values |-> FromInt(fig.z)]
    /\ UNCHANGED <<command, subtext, rssa_list, filename, infile, pos, nrec, rec,
                   loc, surfaces, exc>>

\* np.linspace(z_min, z_max, z_int + 1): delta = stop - start, and the
\* division delta / div, div = z_int, begun
LinspaceDeltaStep ==
    /\ pc = "delta"
    /\ pc' = "step"
    /\ fig' = fig @@ [dv |-> Divide(FSub(fig.hi, fig.lo), FromInt(fig.z_int))]
    /\ UNCHANGED <<command, subtext, rssa_list, filename, infile, pos, nrec, rec,
                   loc, surfaces, exc>>

\* a division under way, in np.linspace or in closest: its next bit
DivideStep ==
    /\ pc \in {"step", "divide"}
    /\ fig.dv.n > 0
    /\ fig' = [fig EXCEPT !.dv = DivideBit(fig.dv)]
    /\ UNCHANGED <<command, subtext, rssa_list, filename, infile, pos, pc, nrec, rec,
                   loc, surfaces, exc>>

\* np.linspace: step = delta / div
LinspaceStepStep ==
    /\ pc = "step"
    /\ fig.dv.n = 0
    /\ pc' = "arange"
    /\ fig' = fig @@ [step |-> Quotient(fig.dv)]
    /\ UNCHANGED <<command, subtext, rssa_list, filename, infile, pos, nrec, rec,
                   loc, surfaces, exc>>

\* np.linspace: y = arange(0, num) * step
LinspaceTimesStep ==
    /\ pc = "arange"
    /\ pc' = "axis"
    /\ fig' = fig @@ [y |-> [k \in 0..fig.z_int |-> FTimesInt(k, fig.step)]]
    /\ UNCHANGED <<command, subtext, rssa_list, filename, infile, pos, nrec, rec,
                   loc, surfaces, exc>>

\* np.linspace: y = y + start, the last value set to stop; this is z_axis
AxisStep ==
    /\ pc = "axis"
    /\ pc' = "closest"
    /\ fig' = fig @@ [z_axis |-> [k \in 0..fig.z_int |->
                                     IF k = fig.z_int THEN fig.hi ELSE FAdd(fig.y[k], fig.lo)]]
    /\ UNCHANGED <<command, subtext, rssa_list, filename, infile, pos, nrec, rec,
                   loc, surfaces, exc>>

\* closest(z_axis, z): l0 = axis[0], lm = axis[1] - axis[0]
ClosestLmStep ==
    /\ pc = "closest"
    /\ pc' = "quotient"
    /\ fig' = fig @@ [ax |-> closest64_lm(fig.z_axis)]
    /\ UNCHANGED <<command, subtext, rssa_list, filename, infile, pos, nrec, rec,
                   loc, surfaces, exc>>

\* closest(z_axis, z): values - l0, and the division by float(lm) begun
ClosestSubStep ==
    /\ pc = "quotient"
    /\ pc' = "divide"
    /\ fig' = [fig EXCEPT !.dv = Divide(FSub(fig.values, fig.ax.l0), fig.ax.lm)]
    /\ UNCHANGED <<command, subtext, rssa_list, filename, infile, pos, nrec, rec,
                   loc, surfaces, exc>>

\* closest(z_axis, z): idx = (values - l0) / float(lm)
ClosestIdxStep ==
    /\ pc = "divide"
    /\ fig.dv.n = 0
    /\ pc' = "cast"
    /\ fig' = fig @@ [idx |-> Quotient(fig.dv)]
    /\ UNCHANGED <<command, subtext, rssa_list, filename, infile, pos, nrec, rec,
                   loc, surfaces, exc>>

\* closest(z_axis, z): idx cast to int and clamped
ClosestStep ==
    /\ pc = "cast"
    /\ pc' = "binned"
    /\ fig' = fig @@ [z_idx |-> closest64(fig.idx, fig.z_int + 1)]
    /\ UNCHANGED <<command, subtext, rssa_list, filename, infile, pos, nrec, rec,
                   loc, surfaces, exc>>

NextClosest ==
    \/ ExtremesStep
    \/ LinspaceDeltaStep
    \/ DivideStep
    \/ LinspaceStepStep
    \/ LinspaceTimesStep
    \/ AxisStep
    \/ ClosestLmStep
    \/ ClosestSubStep
    \/ ClosestIdxStep
    \/ ClosestStep

SpecClosest == InitClosest /\ [][NextClosest]_vars



----------------------------------------------------------------------------
(* Properties                                                              *)

LoadPcs == {"rec1", "rec2", "rec3", "surf", "ext", "summary", "tracks"}

\* the stream has not moved since the last read_fortran_record call
AfterRecord ==
    /\ rec.called
    /\ \/ pc \in LoadPcs
       \/ pc = "raised" /\ exc.at # "reshape"

\* C1: a framed record whose two markers were read: when they are equal the
\* call returns exactly the n1 payload bytes that follow the leading marker
\* and the stream stands right after the trailing marker; when they differ
\* the call raises the format error (ValueError) and returns nothing.
C1_FramedRecord ==
    (rec.called /\ rec.has2) =>
        IF rec.n1 = rec.n2
        THEN /\ rec.returned /\ rec.exc = NoExc
             /\ Len(rec.ret) = rec.n1
             /\ rec.ret = Slice(infile, rec.start + 4, rec.n1)
             /\ rec.pos = rec.start + 4 + rec.n1 + 4
             /\ (AfterRecord => pos = rec.pos)
        ELSE /\ ~rec.returned /\ rec.ret = <<>>
             /\ rec.exc = Exc("ValueError", "frame")
             /\ pc = "raised" /\ exc = rec.exc

\* a record with different markers, met after a record that was read well
C1_Witness ==
    /\ rec.called /\ rec.has2 /\ rec.n1 # rec.n2
    /\ nrec >= 2 /\ pc = "raised"

\* C2 as stated: every loaded track table has exactly nrss rows, nrss the
\* value of the count record, and 11 fields in every row.
C2_RowCountIsNrss ==
    \A i \in 1..Len(rssa_list) :
        /\ Len(rssa_list[i].tracks) = rssa_list[i].parameters.nrss
        /\ \A r \in 1..Len(rssa_list[i].tracks) :
               Len(rssa_list[i].tracks[r]) = TRACK_FIELDS

\* the payload of the first record of the file being loaded
FirstRecord == Slice(infile, 4, DecodeInt(infile, 0))

\* C3: read_header rejects at the first failing check, signature, then nrcd,
\* then np1, and reads nothing after it: a first record without the signature
\* fails with one record read; nrcd # 11 fails with two records read, also
\* when np1 is wrong too; np1 >= 0 fails with two records read; a third
\* record is read only when the signature, nrcd = 11 and np1 < 0 were found.
C3_FirstFailingCheck ==
    /\ (nrec = 1 /\ rec.returned /\ Utf8Decodable(rec.ret) /\ ~HasSignature(rec.ret))
          => (pc = "raised" /\ exc = Exc("NotImplementedError", "signature"))
    /\ (pc = "raised" /\ exc.at = "signature") => nrec = 1
    /\ nrec >= 2 => HasSignature(FirstRecord)
    /\ ("nrcd" \in DOMAIN loc /\ loc.nrcd # NRCD)
          => (pc = "raised" /\ exc = Exc("NotImplementedError", "nrcd") /\ nrec = 2)
    /\ ("nrcd" \in DOMAIN loc /\ loc.nrcd = NRCD /\ loc.np1 >= 0)
          => (pc = "raised" /\ exc = Exc("NotImplementedError", "np1") /\ nrec = 2)
    /\ nrec >= 3 => (loc.nrcd = NRCD /\ loc.np1 < 0)

\* a header with nrcd and np1 both wrong, rejected for nrcd
C3_Witness ==
    /\ pc = "raised" /\ exc.at = "nrcd" /\ nrec = 2
    /\ "np1" \in DOMAIN loc /\ loc.np1 >= 0

HasFlags == "niwr" \in DOMAIN loc

\* C4 as stated: whenever niwr > 0, read_header fails with the
\* unsupported-format error (NotImplementedError).
C4_AlwaysUnsupported ==
    (HasFlags /\ loc.niwr > 0 /\ pc \notin {"surf", "ext"})
        => (pc = "raised" /\ exc.type = "NotImplementedError")

\* C4, amended: with niwr > 0 read_header never returns parameters; it raises
\* the unsupported-format error once the surface records and the first
\* extension record were read with matching markers (a record that cannot be
\* read fails the load first, with its own error); with niwr <= 0 no
\* extension record is read: the summary record is the last one.
C4_Extension ==
    /\ (HasFlags /\ loc.niwr > 0) =>
          /\ pc \in {"surf", "ext", "raised"}
          /\ (pc = "raised" /\ rec.returned /\ Len(surfaces) >= loc.njsw
                /\ nrec = 3 + Len(surfaces) + 1)
               => exc = Exc("NotImplementedError", "extension")
    /\ (HasFlags /\ loc.niwr <= 0) =>
          /\ pc # "ext" /\ exc.at # "extension"
          /\ nrec <= 3 + Len(surfaces) + 1
          /\ (pc \in {"tracks", "menu"} => nrec = 3 + Len(surfaces) + 1)

\* an extension record was read and the load failed as unsupported
C4_Witness ==
    /\ HasFlags /\ loc.niwr > 0 /\ pc = "raised"
    /\ exc = Exc("NotImplementedError", "extension") /\ nrec = 3 + Len(surfaces) + 1

\* C5 as stated: a decoded header has exactly njsw surface descriptors, each
\* with num_params parameters, and info is -1 whenever kjaq # 1.
C5_SurfaceList ==
    \A i \in 1..Len(rssa_list) :
        LET q == rssa_list[i].parameters
        IN  /\ Len(q.surfaces) = q.njsw
            /\ \A k \in 1..Len(q.surfaces) :
                  /\ Len(q.surfaces[k].params) = q.surfaces[k].num_params
                  /\ (q.kjaq # 1 => q.surfaces[k].info = -1)

\* C6: when the bytes left after the header are not a multiple of 96,
\* read_tracks raises the format error (ValueError) and no table comes out.
C6_TailNotMultiple ==
    [][(pc = "tracks" /\ (Len(infile) - pos) % TRACK_BYTES # 0)
          => (pc' = "raised" /\ exc' = Exc("ValueError", "reshape")
                /\ rssa_list' = rssa_list /\ command' = command)]_vars

\* read_tracks has failed on a tail of one record and 92 bytes
C6_Witness ==
    /\ pc = "raised" /\ exc = Exc("ValueError", "reshape")
    /\ (Len(infile) - rec.pos) % TRACK_BYTES = 92
    /\ (Len(infile) - rec.pos) \div TRACK_BYTES = 1

\* C7: a load that fails exposes nothing: the list of loaded files is the
\* one before the open, the file is not among the loaded names, and the
\* menu does not report a loaded file.
C7_FailedLoad ==
    [][(pc \in LoadPcs /\ pc' = "raised")
          => (/\ rssa_list' = rssa_list
              /\ filename \notin {rssa_list'[i].filename : i \in 1..Len(rssa_list')}
              /\ command' = command /\ subtext' = subtext
              /\ exc' # NoExc)]_vars

\* a load failed in read_tracks, after the whole header was decoded
C7_Witness ==
    /\ pc = "raised" /\ exc.at = "reshape" /\ HasFlags /\ Len(surfaces) = 1
    /\ filename \notin rssa_filenames

\* the rows a plot is asked for: those of the particle kind with z strictly
\* inside the z range and the perimeter coordinate strictly inside the x
\* range, where a range is given
Requested(t, particle, x_range, z_range) ==
    {i \in get_particle_mask(t, particle).rows :
        /\ z_range # <<>> => (Z(t, i) > z_range[1] /\ Z(t, i) < z_range[2])
        /\ x_range # <<>> => (PerimeterAbove(t, i, x_range[1])
                                /\ PerimeterBelow(t, i, x_range[2]))}

FigRequested ==
    Requested(rssa_list[fig.idx].tracks, fig.particle, fig.x_range, fig.z_range)

\* C8: in every loaded table each row is in exactly one of the neutron mask
\* and the photon mask, it is in the neutron mask iff |flag| < 9e8, and a row
\* with |flag| = 9e8 is in the photon mask.
C8_MasksPartition ==
    \A k \in 1..Len(rssa_list) :
        LET t == rssa_list[k].tracks
        IN  \A i \in 1..Len(t) :
              /\ (i \in mask_neutron_tracks(t)) # (i \in mask_photon_tracks(t))
              /\ (i \in mask_neutron_tracks(t))
                    <=> (Flag(t, i).k = "num" /\ Abs(Flag(t, i).v) < PHOTON_FLAG)
              /\ (Flag(t, i).k = "num" /\ Abs(Flag(t, i).v) = PHOTON_FLAG)
                    => i \in mask_photon_tracks(t)

\* C9: a plot whose requested rows are none, by the particle kind or by the
\* ranges, fails with the error of the empty selection (the ValueError of the
\* minimum of no rows) and no grid comes out.
C9_EmptySelectionFails ==
    (fig.called /\ fig.particle \in {"n", "p"} /\ FigRequested = {})
        => (fig.exc = Exc("ValueError", "empty min") /\ ~fig.grid)

\* C10: a plot with a number of z or theta intervals that is not positive is
\* rejected with the error of a wrong argument (ValueError) before any axis,
\* grid or index is computed.
C10_NonPositiveBinsRejected ==
    (fig.called /\ (fig.z_int <= 0 \/ fig.theta_int <= 0))
        => (/\ fig.exc.type = "ValueError"
            /\ \A k \in 1..Len(fig.stages) : fig.stages[k] = "mask")

\* the file a plot was made of, its selected rows and their weight
FigTracks == rssa_list[fig.idx].tracks

FigCells == DOMAIN fig.acc

SelectedWeight == SumOver(fig.sel, [i \in fig.sel |-> Wgt(FigTracks, i)])

\* C11: when a plot returns, the sum over the cells of value * cell area *
\* |np1| / source intensity is the sum of the weights of the selected rows:
\* every value is a number, and with value = values_num / values_den and
\* area = area_num / area_den the two sums are equal.
C11_Conservation ==
    (fig.called /\ fig.exc = NoExc)
        => (/\ fig.values_den # 0
            /\ SumOver(FigCells, fig.values_num) * fig.area_num * fig.nps
                 = SelectedWeight * fig.values_den * fig.area_den
                     * fig.source_intensity)

\* C12: in every error grid a cell no row fell in has the error 1 (the
\* inverse root of a count taken as 1), a cell with n >= 1 rows has
\* 1 / sqrt(n), and no cell is undefined.
C12_ErrorGrid ==
    (fig.called /\ fig.grid)
        => \A c \in FigCells :
              /\ fig.error_grid[c].k = "inv_sqrt"
              /\ fig.cnt[c] = 0 => fig.error_grid[c].v = 1
              /\ fig.cnt[c] >= 1 => fig.error_grid[c].v = fig.cnt[c]

\* a plot has returned a grid with an empty cell and a cell of two rows
C12_Witness ==
    /\ fig.called /\ fig.exc = NoExc
    /\ \E c \in FigCells : fig.cnt[c] = 0
    /\ \E c \in FigCells : fig.cnt[c] >= 2

\* C13: the views and the plots of a loaded file leave every track table and
\* every set of header parameters as they were, so the surface type and the
\* particle masks taken again are the same.
C13_ViewsKeepTable ==
    [][(pc = "menu" /\ command \in {"info", "plot", "custom"})
          => (/\ rssa_list' = rssa_list
              /\ \A k \in 1..Len(rssa_list) :
                    /\ SurfaceType(rssa_list'[k]) = SurfaceType(rssa_list[k])
                    /\ mask_neutron_tracks(rssa_list'[k].tracks)
                         = mask_neutron_tracks(rssa_list[k].tracks)
                    /\ mask_photon_tracks(rssa_list'[k].tracks)
                         = mask_photon_tracks(rssa_list[k].tracks))]_vars

\* a plot has returned a grid of a table that holds a negative flag
C13_Witness ==
    /\ fig.called /\ fig.exc = NoExc /\ pc = "menu" /\ command = "run"
    /\ \E i \in 1..Len(FigTracks) : Flag(FigTracks, i).k = "num" /\ Flag(FigTracks, i).v < 0

\* C14: with every combination of given and absent ranges of x and z,
\* plot_current_cyl selects for binning exactly the rows of the particle kind
\* with z strictly inside the z range and the perimeter coordinate strictly
\* inside the x range, also when only the x range is given.
C14_RangeFilters ==
    (fig.called /\ fig.particle \in {"n", "p"})
        => (Len(fig.stages) >= 1 /\ fig.sel = FigRequested)

\* the place in the open file where its header records end
HeaderEnd == Len(HeaderBytes(DiskFiles[filename].h))

\* C15: when read_header has returned, it has read exactly njsw + 4 records
\* (identification, counts, flags, njsw surface records, summary), njsw of
\* them decoded as surfaces, and the file is at the first byte after the
\* header, where read_tracks starts.
C15_HeaderRecords ==
    (pc = "tracks")
        => (/\ nrec = loc.njsw + 4
            /\ Len(surfaces) = loc.njsw
            /\ pos = HeaderEnd)

\* C16: closest gives a value v with axis[0] <= v < axis[-1] the index
\* floor((v - axis[0]) / step), step = (axis[-1] - axis[0]) / n, so that a
\* value on the inner edge axis[k] gets k, and gives a value equal to the
\* upper edge axis[-1] the index n - 1.
C16_ClosestIndex ==
    (pc = "binned")
        => fig.z_idx = IF fig.z = fig.z_max THEN fig.z_int - 1
                       ELSE ((fig.z - fig.z_min) * fig.z_int) \div (fig.z_max - fig.z_min)

\* C17: for every selection that is not empty and positive numbers of
\* intervals, every selected row gets a z index in 0..z_int-1 and a theta
\* index in 0..theta_int-1 and the counts of the cells add up to the number
\* of selected rows, also for one row and for rows of one z or one angle.
C17_IndicesInRange ==
    (/\ fig.called /\ Len(fig.stages) >= 1 /\ fig.sel # {}
     /\ fig.z_int > 0 /\ fig.theta_int > 0)
        => (/\ Len(fig.stages) >= 5
            /\ \A i \in fig.sel : /\ fig.z_idx[i] \in 0..(fig.z_int - 1)
                                  /\ fig.theta_idx[i] \in 0..(fig.theta_int - 1)
            /\ fig.grid
            /\ SumOver(FigCells, fig.cnt) = Cardinality(fig.sel))

====
